---- MODULE Spec2Model ----
(***************************************************************************)
(* Model of src/app.py: one press of "Send Messages" in main(), with the   *)
(* per-message function send_whatsapp_message.  The run is a single thread *)
(* of control; pc is its position.  Everything the run shows to the user   *)
(* (st.success / st.error / st.info / st.warning / progress) and every     *)
(* call it makes on the browser automation and the file system (pyautogui, *)
(* pywhatkit, time.sleep, open, os.remove) is appended, in program order,  *)
(* to log; a call's event carries how the call ended ("ok" or "raise").    *)
(***************************************************************************)
EXTENDS Integers, Sequences, FiniteSets, TLC

VARIABLES
    pc,              \* position of main() in its body
    uploaded_file,   \* the contact file uploader holds a file
    uploaded_media,  \* the media uploader holds a file
    video_supported, \* the installed pywhatkit has sendwhats_video
    media_path,      \* "none", or "temp" once os.path.join has named the file
    media_type,      \* "image" or "video"
    file_exists,     \* the file named by media_path is on disk
    file_size,       \* its size in bytes
    total_contacts,  \* len(df)
    has_columns,     \* df has the columns 'Name' and 'Phone Number'
    idx,             \* the row the loop is at (0-based RangeIndex)
    whatsapp_open,   \* the flag of line 246
    success,         \* the result of the last send_whatsapp_message
    log,             \* the ordered trace of outputs and automation calls
    phone_number,         \* a raw 'Phone Number', as a sequence of characters
    formatted_number,     \* formatted_number of line 67 for phone_number
    renormalized_number,  \* the same computation applied to formatted_number
    message_template,     \* the template of line 156
    row_name,             \* str(row['Name'])
    personalized_message  \* the message of line 253

\* The state of the run, and the texts the text functions work on.  The run
\* is modelled without the texts of its rows; the text functions are applied
\* to inputs of their own under SpecNormalize and SpecRender.
run == << uploaded_file, uploaded_media, video_supported, media_path,
          media_type, file_exists, file_size, total_contacts, has_columns,
          idx, whatsapp_open, success, log >>

text == << phone_number, formatted_number, renormalized_number,
           message_template, row_name, personalized_message >>

vars == << pc, run, text >>

----------------------------------------------------------------------------
(* Bounds and program constants *)

MaxContacts == 3

ImageMaxMB == 16
VideoMaxMB == 100
BytesPerMB == 1024 * 1024

\* Sizes of the uploaded media that the run is tried on: each ceiling, one
\* byte above the larger one, and the 17 MiB / 50 MiB cases.
FileSizes == { ImageMaxMB * BytesPerMB,
               17 * BytesPerMB,
               50 * BytesPerMB,
               VideoMaxMB * BytesPerMB,
               VideoMaxMB * BytesPerMB + 1 }

\* The extensions the media uploader accepts (line 151).
MediaExtensions == { "png", "jpg", "jpeg", "gif", "mp4", "avi", "mov", "mkv" }
VideoExtensions == { "mp4", "avi", "mov", "mkv" }

\* What a call into pyautogui / pywhatkit / the file system can do.
CallOutcomes == { "ok", "raise" }

----------------------------------------------------------------------------
(* The trace *)

Event(ev, i, detail, n) == [ ev |-> ev, idx |-> i, detail |-> detail, n |-> n ]

SendCalls == { "send_image", "send_video", "send_text" }

----------------------------------------------------------------------------
(* send_whatsapp_message, lines 45-133 *)

\* line 79
MaxSizeMB(type) == IF type = "video" THEN VideoMaxMB ELSE ImageMaxMB

\* ValidateMedia with the ceiling itself rejected (>= for >).
ValidateMediaRejectsCeiling(path, type, exists, size) ==
    IF path = "none" THEN "skip"
    ELSE IF ~exists THEN "NotFound"
    ELSE IF size >= MaxSizeMB(type) * BytesPerMB THEN "TooLarge"
    ELSE "ok"

\* lines 70-81: the check of the media file; "skip" when no media is given.
ValidateMedia(path, type, exists, size) ==
    IF path = "none" THEN "skip"
    ELSE IF ~exists THEN "NotFound"
    ELSE IF size > MaxSizeMB(type) * BytesPerMB THEN "TooLarge"
    ELSE "ok"

\* ChannelSend that sends the text alone when sendwhats_video is missing.
ChannelSendDropsMedia(i, path, type, exists, chan) ==
    IF path # "none" /\ exists
    THEN IF type = "image"
         THEN [ events |-> << Event("send_image", i, chan, 0) >>,
                detail |-> "image" ]
         ELSE IF video_supported
              THEN [ events |-> << Event("send_video", i, chan, 0) >>,
                     detail |-> "video" ]
              ELSE [ events |-> << Event("send_text", i, chan, 0) >>,
                     detail |-> "text" ]
    ELSE [ events |-> << Event("send_text", i, chan, 0) >>,
           detail |-> "text" ]

\* lines 86-129: the pywhatkit call(s) made for row i and what they return.
\* chan is what the last pywhatkit call does.
ChannelSend(i, path, type, exists, chan) ==
    IF path # "none" /\ exists
    THEN IF type = "image"
         THEN [ events |-> << Event("send_image", i, chan, 0) >>,
                detail |-> "image" ]
         ELSE IF video_supported
              THEN [ events |-> << Event("send_video", i, chan, 0) >>,
                     detail |-> "video" ]
              ELSE [ events |-> << Event("fallback_warning", i, "", 0),
                                   Event("send_image", i, chan, 0) >>,
                     detail |-> "media" ]
    ELSE [ events |-> << Event("send_text", i, chan, 0) >>,
           detail |-> "text" ]

\* The whole function: (success, message) and the calls it made.
send_whatsapp_message(i, path, type, exists, size, chan) ==
    LET v == ValidateMedia(path, type, exists, size)
        attach == IF v = "ok" THEN << Event("attach", i, type, 0) >> ELSE << >>
        c == ChannelSend(i, path, type, exists, chan)
    IN  IF v \in { "NotFound", "TooLarge" }
        THEN [ success |-> FALSE, detail |-> v, events |-> << >> ]
        ELSE IF chan = "ok"
             THEN [ success |-> TRUE, detail |-> c.detail,
                    events |-> attach \o c.events ]
             ELSE [ success |-> FALSE, detail |-> "Exception",
                    events |-> attach \o c.events ]

----------------------------------------------------------------------------
(* main, lines 135-311 *)

NoText ==
    /\ phone_number = << >>
    /\ formatted_number = << >>
    /\ renormalized_number = << >>
    /\ message_template = << >>
    /\ row_name = << >>
    /\ personalized_message = << >>

Init ==
    /\ pc = "start"
    /\ NoText
    /\ uploaded_file \in BOOLEAN
    /\ uploaded_media \in BOOLEAN
    /\ video_supported \in BOOLEAN
    /\ media_path = "none"
    /\ media_type = "image"
    /\ file_exists = FALSE
    /\ file_size = 0
    /\ total_contacts = 0
    /\ has_columns = FALSE
    /\ idx = 0
    /\ whatsapp_open = FALSE
    /\ success = FALSE
    /\ log = << >>

\* lines 165, 310-311: no contact file was uploaded.
NoFile ==
    /\ pc = "start"
    /\ ~uploaded_file
    /\ pc' = "done"
    /\ log' = Append(log, Event("no_file_error", 0, "", 0))
    /\ UNCHANGED << uploaded_file, uploaded_media, video_supported, media_path,
                    media_type, file_exists, file_size, total_contacts,
                    has_columns, idx, whatsapp_open, success >>
    /\ UNCHANGED text

\* lines 176-181
MediaTypeOf(ext) == IF ext \in VideoExtensions THEN "video" ELSE "image"

\* lines 173-187: the file-system calls of the staging and how each ended.
StageEvents(o, type) ==
    CASE o = "raise_open"  -> << Event("makedirs", 0, "ok", 0),
                                 Event("open_file", 0, "raise", 0) >>
      [] o = "raise_write" -> << Event("makedirs", 0, "ok", 0),
                                 Event("open_file", 0, "ok", 0),
                                 Event("write_file", 0, "raise", 0) >>
      [] o = "ok"          -> << Event("makedirs", 0, "ok", 0),
                                 Event("open_file", 0, "ok", 0),
                                 Event("write_file", 0, "ok", 0),
                                 Event("media_uploaded", 0, type, 0) >>

\* lines 167-187: stage the uploaded media under temp/.  os.makedirs, open
\* and write can each raise; the exception goes to the handler of line 298.
StageMedia ==
    /\ pc = "start"
    /\ uploaded_file
    /\ IF ~uploaded_media
       THEN /\ pc' = "read"
            /\ UNCHANGED << media_path, media_type, file_exists, file_size, log >>
       ELSE \E ext \in MediaExtensions, size \in FileSizes,
               o \in { "ok", "raise_makedirs", "raise_open", "raise_write" } :
              IF o = "raise_makedirs"
              THEN /\ pc' = "except"
                   /\ log' = Append(log, Event("makedirs", 0, "raise", 0))
                   /\ UNCHANGED << media_path, media_type, file_exists,
                                   file_size >>
              ELSE /\ media_path' = "temp"
                   /\ media_type' = MediaTypeOf(ext)
                   /\ file_exists' = (o # "raise_open")
                   /\ file_size' = IF o = "ok" THEN size ELSE 0
                   /\ pc' = IF o = "ok" THEN "read" ELSE "except"
                   /\ log' = log \o StageEvents(o, MediaTypeOf(ext))
    /\ UNCHANGED << uploaded_file, uploaded_media, video_supported,
                    total_contacts, has_columns, idx, whatsapp_open, success >>
    /\ UNCHANGED text

\* lines 189-229: read the contact file; on an error report it and try the
\* alternative reader; when that fails too, report and return.
ReadFile ==
    /\ pc = "read"
    /\ \E o \in { "ok", "fallback_ok", "fail" } :
         IF o = "fail"
         THEN /\ log' = log \o << Event("read_error", 0, "", 0),
                                  Event("read_failed", 0, "", 0) >>
              /\ pc' = "finally"
              /\ UNCHANGED << total_contacts, has_columns >>
         ELSE /\ \E n \in 0..MaxContacts, cols \in BOOLEAN :
                   /\ total_contacts' = n
                   /\ has_columns' = cols
              /\ log' = IF o = "ok" THEN log
                        ELSE Append(log, Event("read_error", 0, "", 0))
              /\ pc' = "columns"
    /\ UNCHANGED << uploaded_file, uploaded_media, video_supported, media_path,
                    media_type, file_exists, file_size, idx, whatsapp_open,
                    success >>
    /\ UNCHANGED text

\* ValidateColumns opening WhatsApp Web before the loop instead of in it.
ValidateColumnsOpensEagerly ==
    /\ pc = "columns"
    /\ IF ~has_columns
       THEN /\ log' = Append(log, Event("columns_error", 0, "", 0))
            /\ pc' = "finally"
            /\ whatsapp_open' = FALSE
       ELSE /\ log' = log \o << Event("show_contacts", 0, "", 0),
                                Event("new_tab", 0, "ok", 0),
                                Event("typewrite", 0, "ok", 0),
                                Event("press_enter", 0, "ok", 0),
                                Event("settle", 0, "", 20) >>
            /\ pc' = "loop"
            /\ whatsapp_open' = TRUE
    /\ idx' = 0
    /\ UNCHANGED << uploaded_file, uploaded_media, video_supported, media_path,
                    media_type, file_exists, file_size, total_contacts,
                    has_columns, success >>
    /\ UNCHANGED text

\* ValidateColumns without the return of line 235.
ValidateColumnsNoReturn ==
    /\ pc = "columns"
    /\ log' = IF ~has_columns
              THEN Append(log, Event("columns_error", 0, "", 0))
              ELSE Append(log, Event("show_contacts", 0, "", 0))
    /\ pc' = "loop"
    /\ whatsapp_open' = FALSE
    /\ idx' = 0
    /\ UNCHANGED << uploaded_file, uploaded_media, video_supported, media_path,
                    media_type, file_exists, file_size, total_contacts,
                    has_columns, success >>
    /\ UNCHANGED text

\* lines 231-249: the column check, then the progress widgets and the flag.
ValidateColumns ==
    /\ pc = "columns"
    /\ IF ~has_columns
       THEN /\ log' = Append(log, Event("columns_error", 0, "", 0))
            /\ pc' = "finally"
       ELSE /\ log' = Append(log, Event("show_contacts", 0, "", 0))
            /\ pc' = "loop"
    /\ whatsapp_open' = FALSE
    /\ idx' = 0
    /\ UNCHANGED << uploaded_file, uploaded_media, video_supported, media_path,
                    media_type, file_exists, file_size, total_contacts,
                    has_columns, success >>
    /\ UNCHANGED text

\* line 250: the next row, or the end of the loop.
LoopHead ==
    /\ pc = "loop"
    /\ pc' = IF idx < total_contacts THEN "open" ELSE "final"
    /\ UNCHANGED << uploaded_file, uploaded_media, video_supported, media_path,
                    media_type, file_exists, file_size, total_contacts,
                    has_columns, idx, whatsapp_open, success, log >>
    /\ UNCHANGED text

\* lines 255-262: the calls of the open sequence, up to and including the
\* one that raises, each with how it ended.
OpenEvents(i, o) ==
    CASE o = "raise_hotkey"    -> << Event("new_tab", i, "raise", 0) >>
      [] o = "raise_typewrite" -> << Event("new_tab", i, "ok", 0),
                                     Event("typewrite", i, "raise", 0) >>
      [] o = "raise_press"     -> << Event("new_tab", i, "ok", 0),
                                     Event("typewrite", i, "ok", 0),
                                     Event("press_enter", i, "raise", 0) >>
      [] o = "ok"              -> << Event("new_tab", i, "ok", 0),
                                     Event("typewrite", i, "ok", 0),
                                     Event("press_enter", i, "ok", 0),
                                     Event("settle", i, "", 20) >>

\* OpenFlag with the flag set before the open sequence has run.
OpenFlagSetEarly(o) == TRUE

\* line 262: the flag after the open sequence ended as o.
OpenFlag(o) == (o = "ok")

\* lines 252-262: render the message, and open WhatsApp Web unless the flag
\* is set.  Each pyautogui call can raise; the handler of line 292 takes it.
OpenSession ==
    /\ pc = "open"
    /\ IF whatsapp_open
       THEN /\ pc' = "send"
            /\ UNCHANGED << whatsapp_open, log >>
       ELSE \E o \in { "ok", "raise_hotkey", "raise_typewrite", "raise_press" } :
              /\ log' = log \o OpenEvents(idx, o)
              /\ whatsapp_open' = OpenFlag(o)
              /\ pc' = IF o = "ok" THEN "send" ELSE "handler"
    /\ UNCHANGED << uploaded_file, uploaded_media, video_supported, media_path,
                    media_type, file_exists, file_size, total_contacts,
                    has_columns, idx, success >>
    /\ UNCHANGED text

\* lines 272-276: the status shown for row i.
StatusEvent(i, r) ==
    Event(IF r.success THEN "sent" ELSE "failed", i, r.detail, 0)

\* lines 278-281: the progress shown after row i.
ProgressEvent(i) == Event("progress", i, "", i + 1)

\* lines 264-281: send to the row, show the status, update the progress.
SendMessage ==
    /\ pc = "send"
    /\ \E chan \in CallOutcomes :
         LET r == send_whatsapp_message(idx, media_path, media_type,
                                        file_exists, file_size, chan)
         IN  /\ success' = r.success
             /\ log' = log \o << Event("deliver", idx, "", 0) >> \o r.events
                           \o << StatusEvent(idx, r), ProgressEvent(idx) >>
    /\ pc' = "pace"
    /\ UNCHANGED << uploaded_file, uploaded_media, video_supported, media_path,
                    media_type, file_exists, file_size, total_contacts,
                    has_columns, idx, whatsapp_open >>
    /\ UNCHANGED text

\* lines 283-284: the wait between messages.
Pace ==
    /\ pc = "pace"
    /\ log' = Append(log, Event("pace", idx, "", 10))
    /\ pc' = "close"
    /\ UNCHANGED << uploaded_file, uploaded_media, video_supported, media_path,
                    media_type, file_exists, file_size, total_contacts,
                    has_columns, idx, whatsapp_open, success >>
    /\ UNCHANGED text

\* CloseTab closing the tab whether or not the send succeeded.
CloseTabAlways ==
    /\ pc = "close"
    /\ \E o \in CallOutcomes :
         IF o = "ok"
         THEN /\ log' = log \o << Event("close_tab", idx, "ok", 0),
                                  Event("pause", idx, "", 5) >>
              /\ pc' = "loop"
              /\ idx' = idx + 1
         ELSE /\ log' = Append(log, Event("close_tab", idx, "raise", 0))
              /\ pc' = "handler"
              /\ UNCHANGED idx
    /\ UNCHANGED << uploaded_file, uploaded_media, video_supported, media_path,
                    media_type, file_exists, file_size, total_contacts,
                    has_columns, whatsapp_open, success >>
    /\ UNCHANGED text

\* CloseTab sending once more to a row whose send failed.
CloseTabRetriesOnce ==
    /\ pc = "close"
    /\ IF success
       THEN \E o \in CallOutcomes :
              IF o = "ok"
              THEN /\ log' = log \o << Event("close_tab", idx, "ok", 0),
                                       Event("pause", idx, "", 5) >>
                   /\ pc' = "loop"
                   /\ idx' = idx + 1
              ELSE /\ log' = Append(log, Event("close_tab", idx, "raise", 0))
                   /\ pc' = "handler"
                   /\ UNCHANGED idx
       ELSE /\ pc' = "loop"
            /\ idx' = IF Cardinality({ k \in 1..Len(log) :
                                          log[k].ev = "deliver"
                                          /\ log[k].idx = idx }) < 2
                      THEN idx ELSE idx + 1
            /\ UNCHANGED log
    /\ UNCHANGED << uploaded_file, uploaded_media, video_supported, media_path,
                    media_type, file_exists, file_size, total_contacts,
                    has_columns, whatsapp_open, success >>
    /\ UNCHANGED text

\* CloseTab leaving the loop after a failed send (a break on failure).
CloseTabBreaksOnFailure ==
    /\ pc = "close"
    /\ IF success
       THEN \E o \in CallOutcomes :
              IF o = "ok"
              THEN /\ log' = log \o << Event("close_tab", idx, "ok", 0),
                                       Event("pause", idx, "", 5) >>
                   /\ pc' = "loop"
                   /\ idx' = idx + 1
              ELSE /\ log' = Append(log, Event("close_tab", idx, "raise", 0))
                   /\ pc' = "handler"
                   /\ UNCHANGED idx
       ELSE /\ pc' = "final"
            /\ UNCHANGED << idx, log >>
    /\ UNCHANGED << uploaded_file, uploaded_media, video_supported, media_path,
                    media_type, file_exists, file_size, total_contacts,
                    has_columns, whatsapp_open, success >>
    /\ UNCHANGED text

\* lines 286-290: close the tab after a successful send; the hotkey can
\* raise, which the handler of line 292 takes.
CloseTab ==
    /\ pc = "close"
    /\ IF success
       THEN \E o \in CallOutcomes :
              IF o = "ok"
              THEN /\ log' = log \o << Event("close_tab", idx, "ok", 0),
                                       Event("pause", idx, "", 5) >>
                   /\ pc' = "loop"
                   /\ idx' = idx + 1
              ELSE /\ log' = Append(log, Event("close_tab", idx, "raise", 0))
                   /\ pc' = "handler"
                   /\ UNCHANGED idx
       ELSE /\ pc' = "loop"
            /\ idx' = idx + 1
            /\ UNCHANGED log
    /\ UNCHANGED << uploaded_file, uploaded_media, video_supported, media_path,
                    media_type, file_exists, file_size, total_contacts,
                    has_columns, whatsapp_open, success >>
    /\ UNCHANGED text

\* Handler ending the run instead of going on with the next row.
HandlerEndsRun ==
    /\ pc = "handler"
    /\ log' = Append(log, Event("contact_error", idx, "", 0))
    /\ pc' = "finally"
    /\ UNCHANGED << uploaded_file, uploaded_media, video_supported, media_path,
                    media_type, file_exists, file_size, total_contacts,
                    has_columns, idx, whatsapp_open, success >>
    /\ UNCHANGED text

\* lines 292-293: the per-row handler; the loop goes on with the next row.
Handler ==
    /\ pc = "handler"
    /\ log' = Append(log, Event("contact_error", idx, "", 0))
    /\ pc' = "loop"
    /\ idx' = idx + 1
    /\ UNCHANGED << uploaded_file, uploaded_media, video_supported, media_path,
                    media_type, file_exists, file_size, total_contacts,
                    has_columns, whatsapp_open, success >>
    /\ UNCHANGED text

\* lines 295-296
FinalStatus ==
    /\ pc = "final"
    /\ log' = Append(log, Event("completed", 0, "", 0))
    /\ pc' = "finally"
    /\ UNCHANGED << uploaded_file, uploaded_media, video_supported, media_path,
                    media_type, file_exists, file_size, total_contacts,
                    has_columns, idx, whatsapp_open, success >>
    /\ UNCHANGED text

\* OuterExcept with the removal outside a finally clause: skipped on error.
OuterExceptSkipsCleanup ==
    /\ pc = "except"
    /\ log' = Append(log, Event("fatal_error", 0, "", 0))
    /\ pc' = "done"
    /\ UNCHANGED << uploaded_file, uploaded_media, video_supported, media_path,
                    media_type, file_exists, file_size, total_contacts,
                    has_columns, idx, whatsapp_open, success >>
    /\ UNCHANGED text

\* lines 298-299
OuterExcept ==
    /\ pc = "except"
    /\ log' = Append(log, Event("fatal_error", 0, "", 0))
    /\ pc' = "finally"
    /\ UNCHANGED << uploaded_file, uploaded_media, video_supported, media_path,
                    media_type, file_exists, file_size, total_contacts,
                    has_columns, idx, whatsapp_open, success >>
    /\ UNCHANGED text

\* line 303: the guard of the removal.
ShouldRemove(path, exists) == path # "none" /\ exists

\* lines 301-308: remove the staged file; a failure to remove is a warning.
Cleanup ==
    /\ pc = "finally"
    /\ IF ShouldRemove(media_path, file_exists)
       THEN \E o \in CallOutcomes :
              IF o = "ok"
              THEN /\ file_exists' = FALSE
                   /\ log' = log \o << Event("remove", 0, "ok", 0),
                                       Event("cleanup_info", 0, "", 0) >>
              ELSE /\ log' = log \o << Event("remove", 0, "raise", 0),
                                       Event("cleanup_warning", 0, "", 0) >>
                   /\ UNCHANGED file_exists
       ELSE UNCHANGED << file_exists, log >>
    /\ pc' = "done"
    /\ UNCHANGED << uploaded_file, uploaded_media, video_supported, media_path,
                    media_type, file_size, total_contacts, has_columns, idx,
                    whatsapp_open, success >>
    /\ UNCHANGED text

Next ==
    \/ NoFile
    \/ StageMedia
    \/ ReadFile
    \/ ValidateColumns
    \/ LoopHead
    \/ OpenSession
    \/ SendMessage
    \/ Pace
    \/ CloseTab
    \/ Handler
    \/ FinalStatus
    \/ OuterExcept
    \/ Cleanup

Spec == Init /\ [][Next]_vars

\* The run is one thread that is never descheduled for good, and every
\* blocking call (sleep, pywhatkit) returns or raises.
FairSpec == Spec /\ WF_vars(Next)

----------------------------------------------------------------------------
(* The text functions: the phone number of lines 59-67 and the message of  *)
(* line 253.  A text is a sequence of one-character strings.               *)

MaxPrefixes == 2
MaxBody == 10
MaxPieces == 3

NationalLen == 10

Digits == { "0", "1", "2", "3", "4", "5", "6", "7", "8", "9" }

\* line 60: ''.join(filter(str.isdigit, str(phone_number)))
CleanNumber(s) == SelectSeq(s, LAMBDA c : c \in Digits)

\* line 64: cleaned_number.startswith('91')
StartsWith91(c) == Len(c) >= 2 /\ c[1] = "9" /\ c[2] = "1"

\* StripCountryCode with the length of '91' plus ten digits as the threshold.
StripCountryCodeOver12(c) ==
    IF StartsWith91(c) /\ Len(c) > 12 THEN SubSeq(c, 3, Len(c)) ELSE c

\* lines 64-65
StripCountryCode(c) ==
    IF StartsWith91(c) /\ Len(c) > NationalLen THEN SubSeq(c, 3, Len(c)) ELSE c

\* lines 60-67: formatted_number for a raw phone number.
FormatNumber(phone) == << "+", "9", "1" >> \o StripCountryCode(CleanNumber(phone))

\* The placeholder of line 253.
NameToken == << "{", "{", "N", "a", "m", "e", "}", "}" >>

\* Replace that replaces the first occurrence only.
RECURSIVE ReplaceFirstOnly(_, _, _)
ReplaceFirstOnly(s, old, new) ==
    IF Len(s) < Len(old) THEN s
    ELSE IF SubSeq(s, 1, Len(old)) = old
         THEN new \o SubSeq(s, Len(old) + 1, Len(s))
         ELSE << s[1] >> \o ReplaceFirstOnly(Tail(s), old, new)

\* str.replace(old, new) for a non-empty old: the occurrences of old are
\* found from the left, without overlap, and what is put in is not scanned.
RECURSIVE Replace(_, _, _)
Replace(s, old, new) ==
    IF Len(s) < Len(old) THEN s
    ELSE IF SubSeq(s, 1, Len(old)) = old
         THEN new \o Replace(SubSeq(s, Len(old) + 1, Len(s)), old, new)
         ELSE << s[1] >> \o Replace(Tail(s), old, new)

\* line 253: message_template.replace("{{Name}}", str(row['Name']))
Render(template, name) == Replace(template, NameToken, name)

(* Inputs *)

RECURSIVE Repeat(_, _)
Repeat(s, n) == IF n = 0 THEN << >> ELSE s \o Repeat(s, n - 1)

BodyPatterns == << << "9", "8", "7", "6", "5", "4", "3", "2", "1", "0" >>,
                   << "9", "1", "2", "3", "4", "5", "6", "7", "8", "0" >> >>

BodyDigits(p, k) == [ j \in 1..k |-> BodyPatterns[p][((j - 1) % 10) + 1] ]

\* Raw phone numbers: an optional '+', up to MaxPrefixes times '91', an
\* optional separator, and 1 to MaxBody digits that begin 98... or 91...
RawNumbers ==
    { lead \o Repeat(<< "9", "1" >>, g) \o sep \o BodyDigits(p, k) :
        lead \in { << >>, << "+" >> },
        g \in 0..MaxPrefixes,
        sep \in { << >>, << " " >>, << "-" >> },
        p \in 1..2,
        k \in 1..MaxBody }

\* Templates: up to MaxPieces pieces, each the placeholder, plain text, or a
\* part of the placeholder.
Pieces == { NameToken,
            << "H", "i", " " >>,
            << "!" >>,
            << "{", "{" >>,
            << "}", "}" >>,
            << "{", "{", "N" >>,
            << "e", "}", "}" >> }

RECURSIVE Concat(_)
Concat(ps) == IF ps = << >> THEN << >> ELSE ps[1] \o Concat(Tail(ps))

Templates ==
    { Concat(ps) : ps \in UNION { [ 1..n -> Pieces ] : n \in 0..MaxPieces } }

Names == { << "A", "s", "h", "a" >>,
           << "N", "a", "m", "e" >>,
           << "a", "m" >>,
           NameToken }

\* The run's variables while a text function is applied on its own.
RunIdle ==
    /\ uploaded_file = FALSE
    /\ uploaded_media = FALSE
    /\ video_supported = FALSE
    /\ media_path = "none"
    /\ media_type = "image"
    /\ file_exists = FALSE
    /\ file_size = 0
    /\ total_contacts = 0
    /\ has_columns = FALSE
    /\ idx = 0
    /\ whatsapp_open = FALSE
    /\ success = FALSE
    /\ log = << >>

InitNormalize ==
    /\ pc = "normalize"
    /\ RunIdle
    /\ phone_number \in RawNumbers
    /\ formatted_number = << >>
    /\ renormalized_number = << >>
    /\ message_template = << >>
    /\ row_name = << >>
    /\ personalized_message = << >>

\* lines 59-67 applied to the raw number.
Normalize ==
    /\ pc = "normalize"
    /\ formatted_number' = FormatNumber(phone_number)
    /\ pc' = "normalized"
    /\ UNCHANGED << run, phone_number, renormalized_number, message_template,
                    row_name, personalized_message >>

\* lines 59-67 applied to their own result.
Renormalize ==
    /\ pc = "normalized"
    /\ renormalized_number' = FormatNumber(formatted_number)
    /\ pc' = "renormalized"
    /\ UNCHANGED << run, phone_number, formatted_number, message_template,
                    row_name, personalized_message >>

NextNormalize == Normalize \/ Renormalize

SpecNormalize == InitNormalize /\ [][NextNormalize]_vars

InitRender ==
    /\ pc = "render"
    /\ RunIdle
    /\ phone_number = << >>
    /\ formatted_number = << >>
    /\ renormalized_number = << >>
    /\ message_template \in Templates
    /\ row_name \in Names
    /\ personalized_message = << >>

\* line 253
Personalize ==
    /\ pc = "render"
    /\ personalized_message' = Render(message_template, row_name)
    /\ pc' = "rendered"
    /\ UNCHANGED << run, phone_number, formatted_number, renormalized_number,
                    message_template, row_name >>

NextRender == Personalize

SpecRender == InitRender /\ [][NextRender]_vars

----------------------------------------------------------------------------
(* Vocabulary of the properties *)

Done == pc = "done"

HasEv(name) == \E k \in 1..Len(log) : log[k].ev = name
EvAt(name, i) == \E k \in 1..Len(log) : log[k].ev = name /\ log[k].idx = i
NumEv(name) == Cardinality({ k \in 1..Len(log) : log[k].ev = name })
NumEvAt(name, i) ==
    Cardinality({ k \in 1..Len(log) : log[k].ev = name /\ log[k].idx = i })

\* A call recorded as name ended as how.
HasCall(name, how) ==
    \E k \in 1..Len(log) : log[k].ev = name /\ log[k].detail = how

\* The rows of the run, and those whose iteration has ended.
Rows == 0..(total_contacts - 1)
RowsDone == 0..(idx - 1)

\* A status shown for a row: the two of lines 273-276 and the one of line 293.
StatusEvents == { "sent", "failed", "contact_error" }
StatusPositions == { k \in 1..Len(log) : log[k].ev \in StatusEvents }

\* A call of pywhatkit for row i returned.
ChannelDelivered(i) ==
    \E k \in 1..Len(log) :
        log[k].ev \in SendCalls /\ log[k].idx = i /\ log[k].detail = "ok"

\* A call of the open sequence raised.
OpenFailed ==
    \E k \in 1..Len(log) :
        log[k].ev \in { "new_tab", "typewrite", "press_enter" }
        /\ log[k].detail = "raise"

----------------------------------------------------------------------------
(* C1.  Failure isolation: whatever deliveries fail, every row of the      *)
(* contact list gets its iteration, the loop ends only after the last row, *)
(* and a failed delivery for row i is followed by a delivery attempt for    *)
(* every later row.                                                        *)
C1_FailureIsolation ==
    /\ \A i \in RowsDone : EvAt("deliver", i) \/ EvAt("contact_error", i)
    /\ \A i \in RowsDone :
         EvAt("failed", i) => \A j \in (i + 1)..(idx - 1) : EvAt("deliver", j)
    /\ (pc = "final" \/ HasEv("completed")) => idx = total_contacts

C1_Witness ==
    /\ Done
    /\ total_contacts >= 3
    /\ EvAt("failed", 0)
    /\ EvAt("failed", 1)
    /\ EvAt("sent", 2)

----------------------------------------------------------------------------
(* C2.  The status stream holds exactly one status per finished row, in    *)
(* row order, "sent" exactly when the channel call for that row returned;  *)
(* so with one failure among N rows the run shows N-1 "sent" and 1 failed. *)
C2_OneOutcomePerRecipient ==
    /\ \A i \in RowsDone :
         Cardinality({ k \in StatusPositions : log[k].idx = i }) = 1
    /\ \A k1, k2 \in StatusPositions : k1 < k2 => log[k1].idx <= log[k2].idx
    /\ \A k \in StatusPositions :
         (log[k].ev = "sent") <=> ChannelDelivered(log[k].idx)
    /\ (HasEv("completed")
        /\ Cardinality({ i \in Rows : ~ChannelDelivered(i) }) = 1)
       => /\ NumEv("sent") = total_contacts - 1
          /\ Cardinality({ k \in StatusPositions : log[k].ev # "sent" }) = 1

----------------------------------------------------------------------------
(* C3.  When the open sequence raises, the run ends at once: no delivery   *)
(* is attempted for any row, no per-row status is shown, and a run-level   *)
(* error is reported.                                                      *)
C3_OpenFailureIsFatal ==
    OpenFailed =>
        /\ ~HasEv("deliver")
        /\ ~HasEv("sent") /\ ~HasEv("failed")
        /\ Done => HasEv("fatal_error")

----------------------------------------------------------------------------
(* C4.  At most one tab is opened for WhatsApp Web in a run, whether the   *)
(* open sequence then completes or raises, and after the sequence has      *)
(* completed the flag whatsapp_open is true for the rest of the run.       *)
TabsOpened ==
    Cardinality({ k \in 1..Len(log) :
                    log[k].ev = "new_tab" /\ log[k].detail = "ok" })

C4_OpenAtMostOnce ==
    /\ TabsOpened <= 1
    /\ HasEv("settle") => whatsapp_open

----------------------------------------------------------------------------
(* C5.  A staged media file (open(media_path, 'wb') returned) gets exactly *)
(* one removal attempt by the time the run ends, on every path; never more *)
(* than one; and a removal that raises is followed only by its warning, so *)
(* nothing shown for a row changes.                                        *)
Staged == HasCall("open_file", "ok")

C5_ReleaseExactlyOnce ==
    /\ NumEv("remove") <= 1
    /\ HasEv("remove") => Staged
    /\ (Done /\ Staged) => NumEv("remove") = 1
    /\ \A k \in 1..Len(log) :
         (log[k].ev = "remove" /\ log[k].detail = "raise" /\ Done)
            => /\ k + 1 = Len(log)
               /\ log[k + 1].ev = "cleanup_warning"
               /\ \A j \in StatusPositions : j < k

C5_Witness ==
    /\ Done
    /\ Staged
    /\ OpenFailed
    /\ HasEv("sent")
    /\ HasCall("remove", "raise")

----------------------------------------------------------------------------
(* C6.  Media reaches a pywhatkit media call only when its size is at most *)
(* the ceiling of its kind (16 MiB image, 100 MiB video, the ceiling       *)
(* itself accepted).  Above the ceiling every send fails as too large and  *)
(* no pywhatkit call of any kind is made in the run; at or below it the    *)
(* check passes at every send.                                             *)
CeilingBytes(kind) ==
    IF kind = "video" THEN 100 * 1024 * 1024 ELSE 16 * 1024 * 1024

Uploaded == HasEv("media_uploaded")

C6_SizeCeiling ==
    /\ \A k \in 1..Len(log) :
         log[k].ev \in { "send_image", "send_video" }
            => file_size <= CeilingBytes(media_type)
    /\ (Uploaded /\ file_size > CeilingBytes(media_type))
          => /\ \A k \in 1..Len(log) : log[k].ev \notin SendCalls
             /\ ~HasEv("sent")
             /\ \A k \in 1..Len(log) :
                  log[k].ev = "failed" => log[k].detail = "TooLarge"
             /\ \A i \in RowsDone : EvAt("deliver", i) => EvAt("failed", i)
    /\ (Uploaded /\ file_size <= CeilingBytes(media_type))
          => /\ \A k \in 1..Len(log) :
                  log[k].ev = "deliver" => EvAt("attach", log[k].idx)
             /\ ~HasCall("failed", "TooLarge")

C6_Witness ==
    /\ Done
    /\ media_type = "image"
    /\ file_size = 17 * 1024 * 1024
    /\ NumEv("deliver") >= 2
    /\ NumEv("failed") >= 2

----------------------------------------------------------------------------
(* C7.  The media file is checked once, before the open sequence; when the *)
(* check fails the run ends there: no open sequence, and for no row a      *)
(* status, a progress update or a pacing wait.                             *)
C7_ValidatedOnceBeforeOpen ==
    /\ media_path # "none" => NumEv("deliver") <= 1
    /\ (HasCall("failed", "TooLarge") \/ HasCall("failed", "NotFound"))
          => /\ ~HasEv("new_tab")
             /\ ~HasEv("progress")
             /\ ~HasEv("pace")
             /\ NumEv("failed") <= 1

----------------------------------------------------------------------------
(* C8.  A run that reaches the loop ends, and it shows the final message   *)
(* exactly once, after the last row has had its iteration and after every  *)
(* per-row output, also when no delivery succeeded.                        *)
C8_AlwaysFinalReport ==
    /\ [](NumEv("completed") <= 1)
    /\ [](HasEv("completed")
            => /\ idx = total_contacts
               /\ \A i \in Rows : EvAt("deliver", i) \/ EvAt("contact_error", i))
    /\ [](\A k \in 1..Len(log) :
            log[k].ev = "completed"
               => \A j \in (k + 1)..Len(log) :
                     log[j].ev \in { "remove", "cleanup_info", "cleanup_warning" })
    /\ ((pc = "loop") ~> (Done /\ NumEv("completed") = 1))

C8_Witness ==
    /\ Done
    /\ total_contacts >= 2
    /\ HasEv("completed")
    /\ NumEv("failed") = total_contacts
    /\ ~HasEv("sent")

----------------------------------------------------------------------------
(* C9.  When the contact file cannot be read by any reader, or lacks the   *)
(* column 'Name' or 'Phone Number', the run goes straight to its end: no   *)
(* open sequence, no send, no progress.                                    *)
IngestionFailed == HasEv("read_failed") \/ HasEv("columns_error")

C9_IngestionFailureIsFatal ==
    IngestionFailed =>
        /\ pc \in { "finally", "done" }
        /\ ~HasEv("new_tab")
        /\ ~HasEv("deliver")
        /\ \A k \in 1..Len(log) : log[k].ev \notin SendCalls
        /\ ~HasEv("progress")

C9_Witness ==
    /\ Done
    /\ HasEv("columns_error")
    /\ total_contacts >= 2

----------------------------------------------------------------------------
(* C10.  Every progress update shows a value between 0 and the number of   *)
(* rows, the values never decrease, and each finished row i has exactly    *)
(* one update, showing i+1.                                                *)
ProgressPositions == { k \in 1..Len(log) : log[k].ev = "progress" }

C10_ProgressPerRecipient ==
    /\ \A k \in ProgressPositions : 0 <= log[k].n /\ log[k].n <= total_contacts
    /\ \A k1, k2 \in ProgressPositions : k1 < k2 => log[k1].n <= log[k2].n
    /\ \A i \in RowsDone :
         /\ NumEvAt("progress", i) = 1
         /\ \A k \in ProgressPositions : log[k].idx = i => log[k].n = i + 1

----------------------------------------------------------------------------
(* C11.  With a video attached and no sendwhats_video in pywhatkit, every  *)
(* send that passed the media check warns and calls sendwhats_image, never *)
(* the video or the text call; the row is shown as sent exactly when that  *)
(* image call returned, so no row is sent without the media having gone    *)
(* through the image call.                                                 *)
C11_VideoFallback ==
    (Uploaded /\ media_type = "video" /\ ~video_supported)
       => /\ ~HasEv("send_video")
          /\ ~HasEv("send_text")
          /\ \A k \in 1..Len(log) :
               log[k].ev = "attach"
                  => /\ EvAt("fallback_warning", log[k].idx)
                     /\ EvAt("send_image", log[k].idx)
                     /\ EvAt("sent", log[k].idx)
                          <=> \E j \in 1..Len(log) :
                                 /\ log[j].ev = "send_image"
                                 /\ log[j].idx = log[k].idx
                                 /\ log[j].detail = "ok"
          /\ \A k \in 1..Len(log) :
               log[k].ev = "sent"
                  => /\ log[k].detail = "media"
                     /\ \E j \in 1..(k - 1) :
                           /\ log[j].ev = "send_image"
                           /\ log[j].idx = log[k].idx
                           /\ log[j].detail = "ok"

C11_Witness ==
    /\ Done
    /\ Uploaded
    /\ media_type = "video"
    /\ ~video_supported
    /\ HasEv("fallback_warning")
    /\ HasCall("sent", "media")

----------------------------------------------------------------------------
(* C15.  Between the iterations of any two consecutive rows the pacing     *)
(* wait takes place, however the earlier row's iteration ended.            *)
C15_PacingUnconditional ==
    \A i \in RowsDone : (i + 1 < total_contacts) => EvAt("pace", i)

----------------------------------------------------------------------------
(* C16.  The tab is closed for a row exactly when the row's send           *)
(* succeeded, and the short pause follows a close that returned; the close *)
(* comes after the row's pacing wait and before anything is done for a     *)
(* later row.                                                              *)
RowEvents == { "new_tab", "typewrite", "press_enter", "settle", "deliver",
               "attach", "fallback_warning", "send_image", "send_video",
               "send_text", "sent", "failed", "progress", "pace",
               "close_tab", "pause", "contact_error" }

C16_CloseOnSuccessOnly ==
    /\ \A i \in Rows : EvAt("close_tab", i) => EvAt("sent", i)
    /\ \A i \in RowsDone : EvAt("sent", i) => NumEvAt("close_tab", i) = 1
    /\ \A i \in RowsDone :
         EvAt("pause", i)
            <=> \E k \in 1..Len(log) :
                   /\ log[k].ev = "close_tab"
                   /\ log[k].idx = i
                   /\ log[k].detail = "ok"
    /\ \A k \in 1..Len(log) :
         log[k].ev = "close_tab"
            => /\ \E j \in 1..(k - 1) :
                     log[j].ev = "pace" /\ log[j].idx = log[k].idx
               /\ \A j \in 1..(k - 1) :
                     log[j].ev \in RowEvents => log[j].idx <= log[k].idx
               /\ \A j \in (k + 1)..Len(log) :
                     log[j].ev \in RowEvents
                        => \/ log[j].idx > log[k].idx
                           \/ log[j].ev \in { "pause", "contact_error" }

C16_Witness ==
    /\ Done
    /\ EvAt("sent", 0)
    /\ EvAt("pause", 0)
    /\ EvAt("failed", 1)
    /\ ~EvAt("close_tab", 1)
    /\ EvAt("sent", 2)

----------------------------------------------------------------------------
(* C17.  No retry: a row gets at most one call of send_whatsapp_message    *)
(* and at most one pywhatkit send call, and the calls go through the rows  *)
(* in strictly increasing order, so a failed row is never sent to again.   *)
DeliverPositions == { k \in 1..Len(log) : log[k].ev = "deliver" }

C17_NoRetry ==
    /\ \A i \in Rows : NumEvAt("deliver", i) <= 1
    /\ \A i \in Rows :
         Cardinality({ k \in 1..Len(log) :
                         log[k].ev \in SendCalls /\ log[k].idx = i }) <= 1
    /\ \A k1, k2 \in DeliverPositions : k1 < k2 => log[k1].idx < log[k2].idx

C17_Witness ==
    /\ Done
    /\ total_contacts >= 2
    /\ EvAt("failed", 0)
    /\ HasCall("send_text", "raise")
    /\ EvAt("sent", 1)

----------------------------------------------------------------------------
(* C18.  send_whatsapp_message is only called with whatsapp_open true, and *)
(* every call comes after a completed open sequence (its settle wait).     *)
C18_DeliverOnlyWhenOpen ==
    /\ pc = "send" => whatsapp_open
    /\ \A k \in DeliverPositions :
         /\ \E j \in 1..(k - 1) : log[j].ev = "settle"
         /\ whatsapp_open

C18_Witness ==
    /\ Done
    /\ OpenFailed
    /\ HasEv("deliver")

----------------------------------------------------------------------------
(* C19.  With a contact file that has the columns and no rows, the run     *)
(* makes no call of the open sequence, no send and no progress update; it  *)
(* still shows the final message and removes a staged media file.          *)
EmptyRun == HasEv("show_contacts") /\ total_contacts = 0

C19_EmptyListLazyOpen ==
    EmptyRun
       => /\ ~whatsapp_open
          /\ \A k \in 1..Len(log) : log[k].ev \notin RowEvents
          /\ Done => /\ NumEv("completed") = 1
                     /\ Staged => NumEv("remove") = 1

C19_Witness ==
    /\ Done
    /\ EmptyRun
    /\ Staged
    /\ HasEv("completed")
    /\ HasEv("remove")

----------------------------------------------------------------------------
(* C12.  Formatting a phone number is idempotent: formatting the formatted *)
(* number gives the formatted number again, for every raw number.          *)
C12_NormalizeIdempotent ==
    pc = "renormalized" => renormalized_number = formatted_number

(* C12, amended.  Formatting is idempotent for every raw number that keeps *)
(* at least nine digits after the redundant leading 91 is removed (so for  *)
(* every ten-digit number, with or without the country code).              *)
C12_NormalizeIdempotentFrom9Digits ==
    (pc = "renormalized" /\ Len(formatted_number) >= 3 + (NationalLen - 1))
       => renormalized_number = formatted_number

C12_Witness ==
    /\ pc = "renormalized"
    /\ Len(CleanNumber(phone_number)) = 12
    /\ Len(formatted_number) = 13
    /\ renormalized_number = formatted_number

----------------------------------------------------------------------------
(* C13.  The formatted number is '+91' followed by digits that do not      *)
(* begin with a further 91 ahead of ten or more digits.                    *)
OnePrefix(f) ==
    /\ Len(f) >= 3
    /\ SubSeq(f, 1, 3) = << "+", "9", "1" >>
    /\ \A j \in 4..Len(f) : f[j] \in Digits
    /\ ~(Len(f) >= 3 + 2 + 10 /\ f[4] = "9" /\ f[5] = "1")

C13_OneCountryCode ==
    pc \in { "normalized", "renormalized" } => OnePrefix(formatted_number)

----------------------------------------------------------------------------
(* C14.  If the template contains {{Name}} the rendered message does not,  *)
(* and the text of the template outside the placeholders is kept, in       *)
(* order: the message is that text with the name in each placeholder's     *)
(* place.                                                                  *)
Contains(s, t) ==
    \E j \in 1..(Len(s) - Len(t) + 1) : SubSeq(s, j, j + Len(t) - 1) = t

\* The texts between the placeholders of s, as s.split("{{Name}}") gives.
RECURSIVE Segments(_)
Segments(s) ==
    IF Len(s) < Len(NameToken) THEN << s >>
    ELSE IF SubSeq(s, 1, Len(NameToken)) = NameToken
         THEN << << >> >> \o Segments(SubSeq(s, Len(NameToken) + 1, Len(s)))
         ELSE LET r == Segments(Tail(s))
              IN  << << s[1] >> \o r[1] >> \o Tail(r)

RECURSIVE Join(_, _)
Join(segs, sep) ==
    IF Len(segs) = 1 THEN segs[1]
    ELSE segs[1] \o sep \o Join(Tail(segs), sep)

NoBrace(s) == \A j \in 1..Len(s) : s[j] \notin { "{", "}" }

ContentKept ==
    personalized_message = Join(Segments(message_template), row_name)

C14_RenderRemovesPlaceholder ==
    pc = "rendered"
       => /\ Contains(message_template, NameToken)
               => ~Contains(personalized_message, NameToken)
          /\ ContentKept

(* C14, amended.  The text of the template outside the placeholders is     *)
(* always kept, in order, with the name in each placeholder's place; and   *)
(* if the template contains {{Name}} and neither the name nor the template *)
(* outside its placeholders contains a brace, the message has no {{Name}}. *)
C14_RenderBraceFree ==
    pc = "rendered"
       => /\ ContentKept
          /\ (/\ Contains(message_template, NameToken)
              /\ NoBrace(row_name)
              /\ NoBrace(Concat(Segments(message_template))))
               => ~Contains(personalized_message, NameToken)

C14_Witness ==
    /\ pc = "rendered"
    /\ Len(Segments(message_template)) = 3
    /\ NoBrace(Concat(Segments(message_template)))
    /\ Len(Concat(Segments(message_template))) > 0
    /\ row_name = << "A", "s", "h", "a" >>
    /\ ~Contains(personalized_message, NameToken)

====
